---------------------------- MODULE Spec2Model ----------------------------
(***************************************************************************)
(* A model of the patent text pipeline of src/web/src/patentParser.js and  *)
(* of its browser driver (the code listed in src/web/README.md).           *)
(*                                                                         *)
(* A JavaScript string is modelled as a sequence of characters; a          *)
(* character is a one-character TLA+ string, and a character outside ASCII *)
(* is the atom "uXXXX" of its code point (the soft hyphen is "u00AD").     *)
(***************************************************************************)
EXTENDS Integers, Sequences, FiniteSets

(***************************************************************************)
(* Characters                                                              *)
(***************************************************************************)
NL == "\n"
CR == "\r"
SHY == "u00AD"

LowerLetters ==
  {"a","b","c","d","e","f","g","h","i","j","k","l","m",
   "n","o","p","q","r","s","t","u","v","w","x","y","z"}

UpperLetters ==
  {"A","B","C","D","E","F","G","H","I","J","K","L","M",
   "N","O","P","Q","R","S","T","U","V","W","X","Y","Z"}

Digits == {"0","1","2","3","4","5","6","7","8","9"}

\* The characters the regular-expression class \s and String.trim remove
\* (those of them that the modelled alphabet holds).
WhiteSpace == {" ", "\t", NL, CR, "\f", "u00A0"}

\* The regular-expression class \w.
WordChars == LowerLetters \cup UpperLetters \cup Digits \cup {"_"}

IsSpace(c) == c \in WhiteSpace
IsLower(c) == c \in LowerLetters
IsDigit(c) == c \in Digits
IsWord(c) == c \in WordChars

UpperToLower ==
  [c \in UpperLetters |->
     CASE c = "A" -> "a" [] c = "B" -> "b" [] c = "C" -> "c" [] c = "D" -> "d"
       [] c = "E" -> "e" [] c = "F" -> "f" [] c = "G" -> "g" [] c = "H" -> "h"
       [] c = "I" -> "i" [] c = "J" -> "j" [] c = "K" -> "k" [] c = "L" -> "l"
       [] c = "M" -> "m" [] c = "N" -> "n" [] c = "O" -> "o" [] c = "P" -> "p"
       [] c = "Q" -> "q" [] c = "R" -> "r" [] c = "S" -> "s" [] c = "T" -> "t"
       [] c = "U" -> "u" [] c = "V" -> "v" [] c = "W" -> "w" [] c = "X" -> "x"
       [] c = "Y" -> "y" [] c = "Z" -> "z"]

LowerChar(c) == IF c \in UpperLetters THEN UpperToLower[c] ELSE c

\* String.prototype.toLowerCase
toLowerCase(s) == [k \in 1..Len(s) |-> LowerChar(s[k])]

DigitValue ==
  [c \in Digits |->
     CASE c = "0" -> 0 [] c = "1" -> 1 [] c = "2" -> 2 [] c = "3" -> 3
       [] c = "4" -> 4 [] c = "5" -> 5 [] c = "6" -> 6 [] c = "7" -> 7
       [] c = "8" -> 8 [] c = "9" -> 9]

(***************************************************************************)
(* String helpers                                                          *)
(***************************************************************************)
Min(a, b) == IF a < b THEN a ELSE b
Max(a, b) == IF a > b THEN a ELSE b

\* String.prototype.slice(from, to) with 0-based offsets 0 <= from, to
Slice(s, from, to) ==
  IF from >= Min(to, Len(s)) THEN <<>> ELSE SubSeq(s, from + 1, Min(to, Len(s)))

\* The characters of s at the positions in K, in order
KeepAt(s, K) ==
  LET kept == SelectSeq([k \in 1..Len(s) |-> <<k, s[k]>>], LAMBDA e : e[1] \in K)
  IN [k \in 1..Len(kept) |-> kept[k][2]]

Least(S) == CHOOSE x \in S : \A y \in S : x <= y
Greatest(S) == CHOOSE x \in S : \A y \in S : y <= x

\* String.prototype.trim
Trim(s) ==
  LET inked == {k \in 1..Len(s) : ~IsSpace(s[k])}
  IN IF inked = {} THEN <<>> ELSE SubSeq(s, Least(inked), Greatest(inked))

\* Whether the characters of w stand in s from (1-based) position p on
MatchAt(s, p, w) ==
  /\ p >= 1
  /\ p + Len(w) - 1 <= Len(s)
  /\ \A k \in 1..Len(w) : LowerChar(s[p + k - 1]) = w[k]

\* Array.prototype.join
RECURSIVE Join(_, _)
Join(lines, sep) ==
  IF lines = <<>> THEN <<>>
  ELSE IF Len(lines) = 1 THEN lines[1]
  ELSE lines[1] \o sep \o Join(Tail(lines), sep)

\* String.prototype.split(/\r?\n/): the pieces between line breaks; the
\* empty string gives one empty piece.  SplitFrom gives the pieces from
\* position p on.
RECURSIVE SplitFrom(_, _)
SplitFrom(s, p) ==
  LET breaks == {k \in p..Len(s) : s[k] = NL}
      nl == Least(breaks)
      last == IF nl > p /\ s[nl - 1] = CR THEN nl - 2 ELSE nl - 1
  IN IF breaks = {} THEN <<SubSeq(s, p, Len(s))>>
     ELSE <<SubSeq(s, p, last)>> \o SplitFrom(s, nl + 1)

SplitLines(s) == SplitFrom(s, 1)

(***************************************************************************)
(* cleanText                                                               *)
(***************************************************************************)
\* text.replace(/\u00AD/g, "")
RemoveSoftHyphens(s) == SelectSeq(s, LAMBDA c : c # SHY)

\* s.replace(/-\n(?=[a-z])/g, ''): every hyphen and newline that stand
\* before a lowercase letter go (two matches never overlap, and the letter
\* looked ahead at is not consumed)
Dehyphenate(s) ==
  LET hits == {k \in 1..(Len(s) - 2) :
                 s[k] = "-" /\ s[k + 1] = NL /\ IsLower(s[k + 2])}
  IN KeepAt(s, {k \in 1..Len(s) : k \notin hits /\ (k - 1) \notin hits})

\* s.replace(/\n{2,}/g, '\n\n'): of a run of newlines the third and later go
CollapseBlankLines(s) ==
  KeepAt(s, {k \in 1..Len(s) :
               ~(k >= 3 /\ s[k] = NL /\ s[k - 1] = NL /\ s[k - 2] = NL)})

cleanText(t) == Trim(CollapseBlankLines(Dehyphenate(RemoveSoftHyphens(t))))

(***************************************************************************)
(* splitSections                                                           *)
(***************************************************************************)
\* The ordered table of (type, pattern).  A pattern is an alternation: the
\* alternatives of `words` stand between two \b, those of `subs` anywhere.
SECTION_HEADERS ==
  << [type  |-> "ABSTRACT",
      words |-> {<<"a","b","s","t","r","a","c","t">>},
      subs  |-> {<<"uC694","uC57D">>}],
     [type  |-> "CLAIMS",
      words |-> {<<"c","l","a","i","m">>, <<"c","l","a","i","m","s">>},
      subs  |-> {<<"uCCAD","uAD6C","uD56D">>}],
     [type  |-> "DESCRIPTION",
      words |-> {<<"d","e","s","c","r","i","p","t","i","o","n">>,
                 <<"d","e","t","a","i","l","e","d"," ",
                   "d","e","s","c","r","i","p","t","i","o","n">>,
                 <<"s","p","e","c","i","f","i","c","a","t","i","o","n">>},
      subs  |-> {<<"uC124","uBA85","uC11C">>,
                 <<"uC0C1","uC138","uD55C"," ","uC124","uBA85">>}],
     [type  |-> "BACKGROUND",
      words |-> {<<"b","a","c","k","g","r","o","u","n","d">>,
                 <<"f","i","e","l","d"," ","o","f"," ","t","h","e"," ",
                   "i","n","v","e","n","t","i","o","n">>},
      subs  |-> {<<"uBC30","uACBD">>}],
     [type  |-> "SUMMARY",
      words |-> {<<"s","u","m","m","a","r","y">>},
      subs  |-> {<<"uC694","uC57D">>, <<"uC694","uC57D","uC11C">>}],
     [type  |-> "DRAWINGS",
      words |-> {<<"b","r","i","e","f"," ",
                   "d","e","s","c","r","i","p","t","i","o","n"," ","o","f"," ",
                   "t","h","e"," ","d","r","a","w","i","n","g","s">>},
      subs  |-> {<<"uB3C4","uBA74","uC758"," ","uAC04","uB2E8","uD55C"," ",
                   "uC124","uBA85">>}] >>

\* w stands in s at p between two word boundaries (w begins and ends with a
\* word character, so its neighbours must not be word characters)
WordAt(s, p, w) ==
  /\ MatchAt(s, p, w)
  /\ (p = 1 \/ ~IsWord(s[p - 1]))
  /\ (p + Len(w) - 1 = Len(s) \/ ~IsWord(s[p + Len(w)]))

\* pat.test(low)
PatTest(pat, low) ==
  \E p \in 1..Len(low) :
    \/ \E w \in pat.words : WordAt(low, p, w)
    \/ \E w \in pat.subs : MatchAt(low, p, w)

NoMatch == "null"

\* The inner loop of splitSections: the type of the first pattern that
\* matches, in table order
RECURSIVE FirstHeader(_, _)
FirstHeader(low, k) ==
  IF k > Len(SECTION_HEADERS) THEN NoMatch
  ELSE IF PatTest(SECTION_HEADERS[k], low) THEN SECTION_HEADERS[k].type
  ELSE FirstHeader(low, k + 1)

MatchHeader(ln) == FirstHeader(Trim(toLowerCase(ln)), 1)

IsHeaderLine(ln) == MatchHeader(ln) # NoMatch

\* The section a flush would emit had it only dropped sections of one line
\* or fewer.
flushOffByOne(sections, current) ==
  IF Len(current.text) > 1
  THEN Append(sections, [type  |-> current.type,
                         title |-> current.title,
                         text  |-> Trim(Join(current.text, <<NL>>))])
  ELSE sections

\* const flush = () => {...}
flush(sections, current) ==
  IF Len(current.text) > 0
  THEN Append(sections, [type  |-> current.type,
                         title |-> current.title,
                         text  |-> Trim(Join(current.text, <<NL>>))])
  ELSE sections

RECURSIVE SplitLoop(_, _, _, _)
SplitLoop(lines, k, sections, current) ==
  IF k > Len(lines) THEN flush(sections, current)
  ELSE LET ln == lines[k]
           matched == MatchHeader(ln)
       IN IF matched # NoMatch
          THEN SplitLoop(lines, k + 1, flush(sections, current),
                         [type |-> matched, title |-> Trim(ln), text |-> <<>>])
          ELSE SplitLoop(lines, k + 1, sections,
                         [current EXCEPT !.text = Append(@, ln)])

splitSections(fullTextArg) ==
  SplitLoop(SplitLines(cleanText(fullTextArg)), 1, <<>>,
            [type |-> "UNKNOWN", title |-> <<>>, text |-> <<>>])

(***************************************************************************)
(* extractClaims                                                           *)
(***************************************************************************)
\* The first position from p on that holds no white space (\s*)
SkipSpaces(s, p) ==
  IF p > Len(s) THEN p
  ELSE Least({q \in p..(Len(s) + 1) :
                (q = Len(s) + 1 \/ ~IsSpace(s[q]))
                  /\ \A r \in p..(q - 1) : IsSpace(s[r])})

\* The first position from p on that holds no digit (\d+ when it is > p)
SkipDigits(s, p) ==
  IF p > Len(s) THEN p
  ELSE Least({q \in p..(Len(s) + 1) :
                (q = Len(s) + 1 \/ ~IsDigit(s[q]))
                  /\ \A r \in p..(q - 1) : IsDigit(s[r])})

\* parseInt(digits, 10)
RECURSIVE parseInt(_)
parseInt(ds) ==
  IF ds = <<>> THEN 0
  ELSE 10 * parseInt(SubSeq(ds, 1, Len(ds) - 1)) + DigitValue[ds[Len(ds)]]

NoClaimMatch == [ok |-> FALSE, num |-> 0, len |-> 0]

\* (\d+)[\.\)]\s+ from position q on
ClaimNumberAt(ln, q) ==
  LET d == SkipDigits(ln, q)
      e == SkipSpaces(ln, d + 1)
  IN IF /\ d > q
        /\ d <= Len(ln)
        /\ ln[d] \in {".", ")"}
        /\ e > d + 1
     THEN [ok |-> TRUE, num |-> parseInt(SubSeq(ln, q, d - 1)), len |-> e - 1]
     ELSE NoClaimMatch

\* ln.match(/^\s*(?:claim\s*)?(\d+)[\.\)]\s+/i)
CLAIM_LINE(ln) ==
  LET p == SkipSpaces(ln, 1)
  IN IF MatchAt(ln, p, <<"c","l","a","i","m">>)
     THEN ClaimNumberAt(ln, SkipSpaces(ln, p + 5))
     ELSE ClaimNumberAt(ln, p)

KO_DELIMS == {".", "uFF09", ")"}

\* ln.match(/^\s*<KO claim>\s*(\d+)\s*[\.<fullwidth )>)]?\s*/)
KO_CLAIM_LINE(ln) ==
  LET p == SkipSpaces(ln, 1)
      q == SkipSpaces(ln, p + 3)
      d == SkipDigits(ln, q)
      e == SkipSpaces(ln, d)
      f == IF e <= Len(ln) /\ ln[e] \in KO_DELIMS THEN e + 1 ELSE e
      g == SkipSpaces(ln, f)
  IN IF /\ p + 2 <= Len(ln)
        /\ SubSeq(ln, p, p + 2) = <<"uCCAD","uAD6C","uD56D">>
        /\ d > q
     THEN [ok |-> TRUE, num |-> parseInt(SubSeq(ln, q, d - 1)), len |-> g - 1]
     ELSE NoClaimMatch

\* ln.match(CLAIM_LINE) || ln.match(KO_CLAIM_LINE)
MatchClaim(ln) ==
  IF CLAIM_LINE(ln).ok THEN CLAIM_LINE(ln) ELSE KO_CLAIM_LINE(ln)

\* The first loop of extractClaims; cur = <<>> stands for null, <<c>> for c
RECURSIVE ClaimLoop(_, _, _, _)
ClaimLoop(lines, k, claimsAcc, cur) ==
  IF k > Len(lines) THEN claimsAcc \o cur
  ELSE LET ln == lines[k]
           m == MatchClaim(ln)
       IN IF m.ok
          THEN ClaimLoop(lines, k + 1, claimsAcc \o cur,
                         << [num |-> m.num,
                             text |-> Trim(Slice(ln, m.len, Len(ln)))] >>)
          ELSE IF cur # <<>>
          THEN ClaimLoop(lines, k + 1, claimsAcc,
                         << [cur[1] EXCEPT !.text = @ \o <<NL>> \o Trim(ln)] >>)
          ELSE ClaimLoop(lines, k + 1, claimsAcc, cur)

\* The length of `claim` or of the Korean ordinal prefix at p, 0 for neither
RefWordAt(s, p) ==
  IF MatchAt(s, p, <<"c","l","a","i","m">>) THEN 5
  ELSE IF MatchAt(s, p, <<"uC81C">>) THEN 1
  ELSE 0

\* [...c.text.matchAll(/(?:claim|<KO ordinal>)\s*([0-9]+)/gi)].map(parseInt),
\* as the set of the numbers (two matches never overlap)
Refs(s) ==
  LET number(p) ==
        LET q == SkipSpaces(s, p + RefWordAt(s, p))
        IN SubSeq(s, q, SkipDigits(s, q) - 1)
  IN {parseInt(number(p)) :
        p \in {r \in 1..Len(s) : RefWordAt(s, r) > 0 /\ number(r) # <<>>}}

\* Array.from(new Set(xs)).sort((a, b) => a - b)
RECURSIVE SortedSeq(_)
SortedSeq(S) ==
  IF S = {} THEN <<>>
  ELSE LET m == CHOOSE x \in S : \A y \in S : x <= y
       IN <<m>> \o SortedSeq(S \ {m})

dependencies(c) == SortedSeq({x \in Refs(c.text) : x # c.num})

extractClaims(claimsText) ==
  LET cs == ClaimLoop(SplitLines(claimsText), 1, <<>>, <<>>)
  IN [k \in 1..Len(cs) |->
        [num |-> cs[k].num, text |-> cs[k].text,
         dependencies |-> dependencies(cs[k])]]

(***************************************************************************)
(* paragraphs, slidingSplit, chunkForRag                                   *)
(***************************************************************************)
\* text.split(/\n\s*\n/): a separator starts at a newline and ends at the
\* last newline of the white space that follows it.  ParagraphSplit gives the
\* pieces from position p on.
RECURSIVE ParagraphSplit(_, _)
ParagraphSplit(s, p) ==
  LET later(k) == {q \in (k + 1)..(SkipSpaces(s, k + 1) - 1) : s[q] = NL}
      starts == {k \in p..Len(s) : s[k] = NL /\ later(k) # {}}
      from == Least(starts)
  IN IF starts = {} THEN <<SubSeq(s, p, Len(s))>>
     ELSE <<SubSeq(s, p, from - 1)>> \o
          ParagraphSplit(s, Greatest(later(from)) + 1)

\* .map((s) => s.trim()).filter(Boolean)
paragraphs(t) ==
  SelectSeq([k \in 1..Len(ParagraphSplit(t, 1)) |-> Trim(ParagraphSplit(t, 1)[k])],
            LAMBDA q : q # <<>>)

\* const charTarget = Math.max(1, targetTokens * 4)
charTargetOf(tt) == Max(1, tt * 4)

\* let charOverlap = Math.max(0, overlapTokens * 4), then the clamp
charOverlapOf(tt, ot) ==
  IF Max(0, ot * 4) >= charTargetOf(tt)
  THEN charTargetOf(tt) \div 10
  ELSE Max(0, ot * 4)

\* A step that adds the overlap instead of subtracting it.
stepOfAdded(tt, ot) == Max(1, charTargetOf(tt) + charOverlapOf(tt, ot))

\* A step without the clamp of the overlap and without the floor of 1.
stepOfUnclamped(tt, ot) == charTargetOf(tt) - Max(0, ot * 4)

\* const step = Math.max(1, charTarget - charOverlap)
stepOf(tt, ot) == Max(1, charTargetOf(tt) - charOverlapOf(tt, ot))

\* The while loop of slidingSplit from offset i on
RECURSIVE SlideFrom(_, _, _, _)
SlideFrom(t, i, charTarget, step) ==
  IF i < Len(t)
  THEN <<Slice(t, i, Min(Len(t), i + charTarget))>> \o
       SlideFrom(t, i + step, charTarget, step)
  ELSE <<>>

slidingSplit(t, tt, ot) == SlideFrom(t, 0, charTargetOf(tt), stepOf(tt, ot))

\* const tlen = (s) => Math.max(1, Math.floor(s.length / 4))
tlen(s) == Max(1, Len(s) \div 4)

Chunk(t, sectionType, claimNums) ==
  [text |-> t, section_type |-> sectionType, claim_nums |-> claimNums,
   page_range |-> "null"]

RECURSIVE Flatten(_)
Flatten(ss) == IF ss = <<>> THEN <<>> ELSE Head(ss) \o Flatten(Tail(ss))

\* The chunks of one claim (the body of the first loop of chunkForRag)
ClaimChunks(c, tt, ot) ==
  LET txt == Trim(c.text)
  IN IF tlen(txt) <= (tt * 3) \div 2
     THEN <<Chunk(txt, "CLAIMS", <<c.num>>)>>
     ELSE [k \in 1..Len(slidingSplit(txt, tt, ot)) |->
             Chunk(slidingSplit(txt, tt, ot)[k], "CLAIMS", <<c.num>>)]

\* The chunks of one paragraph of a section
ParagraphChunks(p, type, tt, ot) ==
  IF tlen(p) <= tt
  THEN <<Chunk(p, type, <<>>)>>
  ELSE [k \in 1..Len(slidingSplit(p, tt, ot)) |->
          Chunk(slidingSplit(p, tt, ot)[k], type, <<>>)]

\* The chunks of one section (the body of the second loop of chunkForRag)
SectionChunks(s, tt, ot) ==
  IF s.type = "CLAIMS" THEN <<>>
  ELSE Flatten([k \in 1..Len(paragraphs(s.text)) |->
                  ParagraphChunks(paragraphs(s.text)[k], s.type, tt, ot)])

\* tokens_est: Math.floor((ch.text || '').length / 4)
tokensEst(t) == Len(t) \div 4

\* chunk_id is modelled by the ordinal it starts with; its random suffix is
\* left out.
chunkForRag(secs, cls, tt, ot) ==
  LET raw == Flatten([k \in 1..Len(cls) |-> ClaimChunks(cls[k], tt, ot)]) \o
             Flatten([k \in 1..Len(secs) |-> SectionChunks(secs[k], tt, ot)])
  IN [k \in 1..Len(raw) |->
        [text |-> raw[k].text, section_type |-> raw[k].section_type,
         claim_nums |-> raw[k].claim_nums, page_range |-> raw[k].page_range,
         chunk_id |-> k - 1, tokens_est |-> tokensEst(raw[k].text)]]

(***************************************************************************)
(* State                                                                   *)
(***************************************************************************)
VARIABLES
  \* one run of the data flow of convertOnePdf
  pc,             \* "input", "normalized", "split", "extracted", "chunked"
  rawText,        \* the text the run was given
  fullText,       \* convertOnePdf's fullText
  splitText,      \* splitSections' local `text`
  sections,       \* what splitSections returned
  claims,         \* what extractClaims returned
  chunks,         \* what chunkForRag returned
  targetTokens,   \* the configuration chunkForRag was called with
  overlapTokens,
  \* one call of slidingSplit, statement by statement
  spc,            \* "entry", "loop", "returned"
  stext,          \* its argument text
  sTargetTokens,  \* its argument targetTokens
  sOverlapTokens, \* its argument overlapTokens
  charTarget, charOverlap, step, i, out,
  spans,          \* history: the offsets <<i, j>> of every window pushed
  \* the page of the driver: the click handlers
  hpc,            \* "idle", "loop"
  files,          \* els.fileInput.files of the running batch
  fi,             \* the loop index of the convert handler
  zip,            \* the JSZip being filled: the paths of its doc entries
  allChunks,
  lastZipBlob,
  status,
  convertBtnDisabled,
  downloadZipBtnDisabled,
  docPreview,     \* els.docPreview: the name of the file previewed
  downloaded      \* what the last download handed to the user

pipeVars == <<pc, rawText, fullText, splitText, sections, claims, chunks,
              targetTokens, overlapTokens>>
slideVars == <<spc, stext, sTargetTokens, sOverlapTokens, charTarget,
               charOverlap, step, i, out, spans>>
pageVars == <<hpc, files, fi, zip, allChunks, lastZipBlob, status,
              convertBtnDisabled, downloadZipBtnDisabled, docPreview,
              downloaded>>
vars == <<pipeVars, slideVars, pageVars>>

\* null, for a variable that holds a blob <<b>> otherwise
Null == <<>>

(***************************************************************************)
(* Bounds and inputs                                                       *)
(***************************************************************************)
MaxLines == 3          \* lines of an input text
MaxTargetTokens == 2   \* largest small targetTokens tried
MaxOverlapTokens == 1  \* largest small overlapTokens tried (pipeline)
MaxTextLen == 24       \* longest text given to slidingSplit alone
MaxSlideTarget == 3    \* largest targetTokens given to slidingSplit alone
MaxSlideOverlap == 3   \* largest overlapTokens given to slidingSplit alone
MaxFiles == 2          \* files of one batch

\* The lines input texts are made of: blank and white lines, a body line, a
\* hyphen at a line end, two header lines, a claim line, a soft hyphen.
LineVocabulary ==
  { <<>>,
    <<" ">>,
    <<"a">>,
    <<"-">>,
    <<"C","l","a","i","m","s">>,
    <<"A","b","s","t","r","a","c","t">>,
    <<"1","."," ","a">>,
    <<SHY>> }

RECURSIVE SeqsUpTo(_, _)
SeqsUpTo(S, n) ==
  IF n = 0 THEN {<<>>}
  ELSE LET shorter == SeqsUpTo(S, n - 1)
       IN shorter \cup {Append(q, x) : q \in shorter, x \in S}

ScenarioA ==
  <<"C","L","A","I","M","S",NL,
    "1","."," ","A"," ","w","i","d","g","e","t"," ",
    "c","o","m","p","r","i","s","i","n","g"," ","X",".",NL,
    "2","."," ","T","h","e"," ","w","i","d","g","e","t"," ","o","f"," ",
    "c","l","a","i","m"," ","1",","," ",
    "f","u","r","t","h","e","r"," ",
    "c","o","m","p","r","i","s","i","n","g"," ","Y",".">>

Inputs ==
  {Join(ls, <<NL>>) : ls \in SeqsUpTo(LineVocabulary, MaxLines)} \cup {ScenarioA}

\* The configurations chunkForRag is called with: small ones (non-positive
\* targetTokens among them) and the driver's.
Configs ==
  {[tt |-> a, ot |-> b] : a \in (-1)..MaxTargetTokens, b \in 0..MaxOverlapTokens}
    \cup {[tt |-> 600, ot |-> 80]}

(***************************************************************************)
(* convertOnePdf: the data flow                                            *)
(***************************************************************************)
PipeInit ==
  /\ pc = "input"
  /\ rawText \in Inputs
  /\ fullText = rawText
  /\ splitText = <<>>
  /\ sections = <<>>
  /\ claims = <<>>
  /\ chunks = <<>>
  /\ targetTokens = 600
  /\ overlapTokens = 80

\* fullText = cleanText(fullText)
Normalize ==
  /\ pc = "input"
  /\ fullText' = cleanText(fullText)
  /\ pc' = "normalized"
  /\ UNCHANGED <<rawText, splitText, sections, claims, chunks, targetTokens,
                 overlapTokens>>

\* const sections = splitSections(fullText), on the driver's normalized text
\* or, called alone, on the text as given
SplitSections ==
  /\ pc \in {"input", "normalized"}
  /\ splitText' = cleanText(fullText)
  /\ sections' = splitSections(fullText)
  /\ pc' = "split"
  /\ UNCHANGED <<rawText, fullText, claims, chunks, targetTokens, overlapTokens>>

\* sections.find((s) => s.type === 'CLAIMS')
ClaimsSections == SelectSeq(sections, LAMBDA s : s.type = "CLAIMS")

\* const claims = claimsSection ? extractClaims(claimsSection.text) : []
ExtractClaims ==
  /\ pc = "split"
  /\ claims' = IF ClaimsSections # <<>>
               THEN extractClaims(ClaimsSections[1].text)
               ELSE <<>>
  /\ pc' = "extracted"
  /\ UNCHANGED <<rawText, fullText, splitText, sections, chunks, targetTokens,
                 overlapTokens>>

\* const chunks = chunkForRag(sections, claims, {targetTokens, overlapTokens})
ChunkForRag ==
  /\ pc = "extracted"
  /\ \E cfg \in Configs :
       /\ targetTokens' = cfg.tt
       /\ overlapTokens' = cfg.ot
       /\ chunks' = chunkForRag(sections, claims, cfg.tt, cfg.ot)
  /\ pc' = "chunked"
  /\ UNCHANGED <<rawText, fullText, splitText, sections, claims>>

(***************************************************************************)
(* slidingSplit, statement by statement                                    *)
(***************************************************************************)
\* The text of a given length (slidingSplit reads only offsets)
TextOfLen(n) == [k \in 1..n |-> "x"]

\* Scenario C and Scenario D of the specification
SlideScenarios ==
  { [len |-> 3000, tt |-> 600, ot |-> 80],
    [len |-> 100, tt |-> 10, ot |-> 100] }

\* chunkForRag calls slidingSplit on a claim text t with
\* tlen(t) > floor(targetTokens * 1.5) and on a paragraph p with
\* tlen(p) > targetTokens, and on nothing else.
CalledWith(inp) ==
  \/ tlen(TextOfLen(inp.len)) > (inp.tt * 3) \div 2
  \/ tlen(TextOfLen(inp.len)) > inp.tt /\ inp.len > 0

SlideInputs ==
  {inp \in {[len |-> n, tt |-> a, ot |-> b] :
              n \in 0..MaxTextLen, a \in (-1)..MaxSlideTarget,
              b \in (-1)..MaxSlideOverlap}
            \cup SlideScenarios :
     CalledWith(inp)}

SlideInit ==
  /\ spc = "entry"
  /\ \E inp \in SlideInputs :
       /\ stext = TextOfLen(inp.len)
       /\ sTargetTokens = inp.tt
       /\ sOverlapTokens = inp.ot
  /\ charTarget = 0
  /\ charOverlap = 0
  /\ step = 0
  /\ i = 0
  /\ out = <<>>
  /\ spans = <<>>

\* lines 91-98: the set-up of the loop
SlideEnter ==
  /\ spc = "entry"
  /\ charTarget' = charTargetOf(sTargetTokens)
  /\ charOverlap' = charOverlapOf(sTargetTokens, sOverlapTokens)
  /\ step' = stepOf(sTargetTokens, sOverlapTokens)
  /\ i' = 0
  /\ out' = <<>>
  /\ spc' = "loop"
  /\ UNCHANGED <<stext, sTargetTokens, sOverlapTokens, spans>>

\* lines 99-103: one iteration
SlideIterate ==
  /\ spc = "loop"
  /\ i < Len(stext)
  /\ LET j == Min(Len(stext), i + charTarget)
     IN /\ out' = Append(out, Slice(stext, i, j))
        /\ spans' = Append(spans, <<i, j>>)
  /\ i' = i + step
  /\ UNCHANGED <<spc, stext, sTargetTokens, sOverlapTokens, charTarget,
                 charOverlap, step>>

\* line 104: return out
SlideReturn ==
  /\ spc = "loop"
  /\ ~(i < Len(stext))
  /\ spc' = "returned"
  /\ UNCHANGED <<stext, sTargetTokens, sOverlapTokens, charTarget,
                 charOverlap, step, i, out, spans>>

(***************************************************************************)
(* The page: the convert and download click handlers                       *)
(***************************************************************************)
FileNames == {"a.pdf", "a.PDF", "b.pdf"}

\* file.name.replace(/\.pdf$/i, '')
Base(name) ==
  CASE name = "a.pdf" -> "a"
    [] name = "a.PDF" -> "a"
    [] name = "b.pdf" -> "b"

\* A selected file: its name, and whether convertOnePdf returns for it
\* (pdf.js reads it) or throws (pdfjsLib.getDocument rejects it).
Files == [name : FileNames, parses : BOOLEAN]

Batches == SeqsUpTo(Files, MaxFiles)

\* `docs/${base}.patent.json`
DocPath(name) == Base(name)

PageInit ==
  /\ hpc = "idle"
  /\ files = <<>>
  /\ fi = 0
  /\ zip = {}
  /\ allChunks = <<>>
  /\ lastZipBlob = Null
  /\ status = ""
  /\ convertBtnDisabled = FALSE
  /\ downloadZipBtnDisabled \in BOOLEAN   \* the markup is not in the source
  /\ docPreview = ""
  /\ downloaded = Null

\* lines 53-66: the click, up to the loop
ConvertClick ==
  /\ hpc = "idle"
  /\ ~convertBtnDisabled
  /\ \E fs \in Batches :
       /\ files' = fs
       /\ IF fs = <<>>
          THEN /\ status' = "select"
               /\ UNCHANGED <<hpc, fi, zip, allChunks, convertBtnDisabled,
                              downloadZipBtnDisabled>>
          ELSE /\ convertBtnDisabled' = TRUE
               /\ downloadZipBtnDisabled' = TRUE
               /\ status' = "processing"
               /\ zip' = {}
               /\ allChunks' = <<>>
               /\ fi' = 0
               /\ hpc' = "loop"
  /\ UNCHANGED <<lastZipBlob, docPreview, downloaded>>

\* lines 68-84: one iteration whose convertOnePdf returns
ConvertFile ==
  /\ hpc = "loop"
  /\ fi < Len(files)
  /\ files[fi + 1].parses
  /\ zip' = zip \cup {DocPath(files[fi + 1].name)}
  /\ allChunks' = Append(allChunks, files[fi + 1].name)
  /\ docPreview' = IF fi = Len(files) - 1 THEN files[fi + 1].name
                   ELSE docPreview
  /\ fi' = fi + 1
  /\ UNCHANGED <<hpc, files, lastZipBlob, status, convertBtnDisabled,
                 downloadZipBtnDisabled, downloaded>>

\* line 72 throws: lines 95-100, the catch and the finally of the handler
ConvertThrows ==
  /\ hpc = "loop"
  /\ fi < Len(files)
  /\ ~files[fi + 1].parses
  /\ status' = "error"
  /\ convertBtnDisabled' = FALSE
  /\ hpc' = "idle"
  /\ UNCHANGED <<files, fi, zip, allChunks, lastZipBlob,
                 downloadZipBtnDisabled, docPreview, downloaded>>

\* lines 86-94 and 98-100: after the loop
FinishZip ==
  /\ hpc = "loop"
  /\ fi = Len(files)
  /\ lastZipBlob' = << [docs |-> zip, chunks |-> allChunks] >>
  /\ downloadZipBtnDisabled' = FALSE
  /\ status' = "done"
  /\ convertBtnDisabled' = FALSE
  /\ hpc' = "idle"
  /\ UNCHANGED <<files, fi, zip, allChunks, docPreview, downloaded>>

\* lines 103-110
DownloadClick ==
  /\ ~downloadZipBtnDisabled
  /\ lastZipBlob # Null
  /\ downloaded' = lastZipBlob
  /\ UNCHANGED <<hpc, files, fi, zip, allChunks, lastZipBlob, status,
                 convertBtnDisabled, downloadZipBtnDisabled, docPreview>>

(***************************************************************************)
(* Specifications                                                          *)
(***************************************************************************)
\* The variables of the parts a specification leaves out stay as set here.
PipeIdle ==
  /\ pc = "input" /\ rawText = <<>> /\ fullText = <<>> /\ splitText = <<>>
  /\ sections = <<>> /\ claims = <<>> /\ chunks = <<>>
  /\ targetTokens = 600 /\ overlapTokens = 80

SlideIdle ==
  /\ spc = "entry" /\ stext = <<>> /\ sTargetTokens = 600
  /\ sOverlapTokens = 80 /\ charTarget = 0 /\ charOverlap = 0 /\ step = 0
  /\ i = 0 /\ out = <<>> /\ spans = <<>>

PageIdle ==
  /\ hpc = "idle" /\ files = <<>> /\ fi = 0 /\ zip = {} /\ allChunks = <<>>
  /\ lastZipBlob = Null /\ status = "" /\ convertBtnDisabled = FALSE
  /\ downloadZipBtnDisabled = TRUE /\ docPreview = "" /\ downloaded = Null

\* The data flow of one document
Init == PipeInit /\ SlideIdle /\ PageIdle

Next ==
  \/ Normalize /\ UNCHANGED <<slideVars, pageVars>>
  \/ SplitSections /\ UNCHANGED <<slideVars, pageVars>>
  \/ ExtractClaims /\ UNCHANGED <<slideVars, pageVars>>
  \/ ChunkForRag /\ UNCHANGED <<slideVars, pageVars>>

Spec == Init /\ [][Next]_vars

\* One call of slidingSplit
SlidingInit == SlideInit /\ PipeIdle /\ PageIdle

SlidingNext ==
  \/ SlideEnter /\ UNCHANGED <<pipeVars, pageVars>>
  \/ SlideIterate /\ UNCHANGED <<pipeVars, pageVars>>
  \/ SlideReturn /\ UNCHANGED <<pipeVars, pageVars>>

SlidingSpec == SlidingInit /\ [][SlidingNext]_vars

\* The call runs on: a synchronous function is not suspended
SlidingFairSpec == SlidingSpec /\ WF_vars(SlidingNext)

\* The page
BatchInit == PageInit /\ PipeIdle /\ SlideIdle

BatchNext ==
  \/ ConvertClick /\ UNCHANGED <<pipeVars, slideVars>>
  \/ ConvertFile /\ UNCHANGED <<pipeVars, slideVars>>
  \/ ConvertThrows /\ UNCHANGED <<pipeVars, slideVars>>
  \/ FinishZip /\ UNCHANGED <<pipeVars, slideVars>>
  \/ DownloadClick /\ UNCHANGED <<pipeVars, slideVars>>

BatchSpec == BatchInit /\ [][BatchNext]_vars

(***************************************************************************)
(* Properties                                                              *)
(***************************************************************************)
AfterSplit == pc \in {"split", "extracted", "chunked"}
AfterExtract == pc \in {"extracted", "chunked"}

\* The lines of the normalized text that splitSections scanned
ScannedLines == SplitLines(splitText)

\* What is written on a sequence of lines: the lines without the white space
\* around them, the blank ones left out
Content(lines) ==
  SelectSeq([k \in 1..Len(lines) |-> Trim(lines[k])], LAMBDA l : l # <<>>)

\* ceil(a / b) for b > 0
CeilDiv(a, b) == -((-a) \div b)

\* C1: Scenario A: splitSections on the text and extractClaims on the text of
\* its CLAIMS section give exactly two claims, claim 1 with no dependencies
\* and claim 2 depending on claim 1.
C1_ScenarioA ==
  (rawText = ScenarioA /\ AfterExtract) =>
    [k \in 1..Len(claims) |->
       [num |-> claims[k].num, dependencies |-> claims[k].dependencies]]
      = << [num |-> 1, dependencies |-> <<>>],
           [num |-> 2, dependencies |-> <<1>>] >>

\* C2: a text none of whose lines is a header gives one UNKNOWN section that
\* holds the whole normalized text when that text is not empty, and no
\* section at all when it is empty.
C2_NoHeaders ==
  (AfterSplit /\ \A k \in 1..Len(ScannedLines) : ~IsHeaderLine(ScannedLines[k]))
    => IF splitText # <<>>
       THEN sections = << [type |-> "UNKNOWN", title |-> <<>>,
                           text |-> splitText] >>
       ELSE sections = <<>>

\* C3: for targetTokens > 0 and overlapTokens >= 0, slidingSplit returns
\* ceil((L - charTarget) / step) + 1 windows when L > charTarget and one
\* window otherwise.
C3_WindowCount ==
  (spc = "returned" /\ sTargetTokens > 0 /\ sOverlapTokens >= 0) =>
    LET ct == sTargetTokens * 4
        co == IF sOverlapTokens * 4 >= ct THEN ct \div 10
              ELSE sOverlapTokens * 4
        st == Max(1, ct - co)
    IN Len(out) = IF Len(stext) > ct
                  THEN CeilDiv(Len(stext) - ct, st) + 1
                  ELSE 1

\* C3, amended: for targetTokens > 0 and overlapTokens >= 0 slidingSplit
\* returns ceil(L / step) windows for a text of length L > 0, the k-th at
\* offset (k - 1) * step; the 3000-character text with targetTokens = 600 and
\* overlapTokens = 80 gives two windows, at offsets 0 and 2080.
C3_WindowCountAmended ==
  (spc = "returned" /\ sTargetTokens > 0 /\ sOverlapTokens >= 0
     /\ Len(stext) > 0) =>
    LET ct == sTargetTokens * 4
        co == IF sOverlapTokens * 4 >= ct THEN ct \div 10
              ELSE sOverlapTokens * 4
        st == Max(1, ct - co)
    IN /\ Len(out) = CeilDiv(Len(stext), st)
       /\ Len(spans) = Len(out)
       /\ \A k \in 1..Len(spans) : spans[k][1] = (k - 1) * st
       /\ (Len(stext) = 3000 /\ sTargetTokens = 600 /\ sOverlapTokens = 80)
            => spans = << <<0, 2400>>, <<2080, 3000>> >>

\* C3's case: a call with an overlap returned, and its last window lies
\* wholly inside the one before it, which ends the text
C3_Witness ==
  /\ spc = "returned"
  /\ sTargetTokens > 0
  /\ sOverlapTokens > 0
  /\ Len(spans) >= 3
  /\ spans[Len(spans) - 1][2] = Len(stext)
  /\ spans[Len(spans)][1] > spans[Len(spans) - 1][1]

\* C4: every chunk chunkForRag emits has tokens_est = max(1, floor(length of
\* its text / 4)); no chunk has tokens_est = 0.
C4_TokensEst ==
  pc = "chunked" =>
    \A k \in 1..Len(chunks) :
      chunks[k].tokens_est = Max(1, Len(chunks[k].text) \div 4)

\* C5: chunkForRag called with targetTokens <= 0 fails at the call: it never
\* returns a chunk sequence for such a configuration.
C5_FailFast == pc = "chunked" => targetTokens > 0

\* C6: for targetTokens > 0 and overlapTokens >= 0 the windows of
\* slidingSplit cover the text end to end: the first starts at offset 0, the
\* last ends at the end of the text, each starts no later than the one
\* before it ends, no character is skipped; and two adjacent windows share
\* at most charOverlap characters.
C6_Coverage ==
  (spc = "returned" /\ sTargetTokens > 0 /\ sOverlapTokens >= 0) =>
    LET n == Len(spans)
        ct == sTargetTokens * 4
        co == IF sOverlapTokens * 4 >= ct THEN ct \div 10
              ELSE sOverlapTokens * 4
    IN /\ Len(out) = n
       /\ \A k \in 1..n : out[k] = Slice(stext, spans[k][1], spans[k][2])
       /\ Len(stext) > 0 => n > 0
       /\ n > 0 => spans[1][1] = 0 /\ spans[n][2] = Len(stext)
       /\ \A k \in 1..(n - 1) : spans[k + 1][1] <= spans[k][2]
       /\ \A p \in 0..(Len(stext) - 1) :
            \E k \in 1..n : spans[k][1] <= p /\ p < spans[k][2]
       /\ \A k \in 1..(n - 1) : spans[k][2] - spans[k + 1][1] <= co

\* C6's case: a call with an overlap that returned three windows or more,
\* the last of them shorter than charTarget
C6_Witness ==
  /\ spc = "returned"
  /\ sTargetTokens > 0
  /\ sOverlapTokens > 0
  /\ charOverlap > 0
  /\ Len(out) >= 3
  /\ Len(out[Len(out)]) < charTarget

\* C7: the loop of slidingSplit terminates for every integer configuration:
\* step is at least 1, every iteration moves the offset i forward, and the
\* call returns.
C7_Terminates ==
  /\ [](spc = "loop" => step >= 1)
  /\ [][spans' # spans => i' > i]_vars
  /\ <>(spc = "returned")

\* C7's case: Scenario D (targetTokens = 10, overlapTokens = 100) returned,
\* charOverlap clamped to 4
C7_Witness ==
  /\ spc = "returned"
  /\ sTargetTokens = 10
  /\ sOverlapTokens = 100
  /\ charOverlap = 4
  /\ step = 36
  /\ Len(out) = 3

\* The lines of the normalized text that are not header lines
BodyLines == SelectSeq(ScannedLines, LAMBDA l : ~IsHeaderLine(l))

\* C8: the sections partition the body of the normalized text: the lines
\* that are not header lines fall, in source order, into as many consecutive
\* groups as there are sections, none empty, and the text of the k-th section
\* is the k-th group joined by newlines and trimmed; so every such line
\* stands in exactly one section and the section texts, in order, give the
\* normalized text without its header lines (up to the white space trimmed).
C8_Partition ==
  AfterSplit =>
    LET m == Len(BodyLines)
        n == Len(sections)
    IN /\ IF m = 0 THEN n = 0
          ELSE \E S \in SUBSET (1..(m - 1)) :
                 /\ Cardinality(S) = n - 1
                 /\ LET cuts == <<0>> \o SortedSeq(S) \o <<m>>
                    IN \A k \in 1..n :
                         sections[k].text =
                           Trim(Join(SubSeq(BodyLines, cuts[k] + 1, cuts[k + 1]),
                                     <<NL>>))
       /\ Content(Flatten([k \in 1..n |-> SplitLines(sections[k].text)]))
            = Content(BodyLines)

\* C8's case: a text with body lines before and after a header line, split
\* into two sections or more
C8_Witness ==
  /\ AfterSplit
  /\ Len(sections) >= 2
  /\ \E k \in 1..Len(ScannedLines) : IsHeaderLine(ScannedLines[k])
  /\ Len(Content(BodyLines)) >= 2

\* C9: in a batch of several documents a document that fails does not abort
\* the batch: when the handler is done every file of the batch was processed
\* and every document that converted is in the ZIP handed out.
C9_BatchContinues ==
  (hpc = "idle" /\ Len(files) >= 2) =>
    /\ fi = Len(files)
    /\ lastZipBlob # Null
    /\ \A k \in 1..Len(files) :
         files[k].parses => DocPath(files[k].name) \in lastZipBlob[1].docs

\* C10: cleanText is idempotent: the normalization splitSections applies to
\* a text that is already normalized changes nothing.
C10_Idempotent ==
  (AfterSplit /\ fullText = cleanText(rawText)) => splitText = fullText

=============================================================================
